---- MODULE Spec2Model ----
(***************************************************************************)
(* Model of the Excel interview server: the interview state machine        *)
(* (server/agents/interviewer.py driven by the /start and /turn handlers   *)
(* of server/main.py), the hybrid grader (server/graders/hybrid.py over    *)
(* rule_based.py and llm_based.py) and its escalation path over the        *)
(* process-wide provider manager (server/llm/provider_abstraction.py).     *)
(***************************************************************************)
EXTENDS Integers, Sequences, FiniteSets, TLC

VARIABLES
    interview,   \* the Interview row of the interview under study
    call,        \* arguments InterviewAgent.process_turn was last called with
    response,    \* what the last /start or /turn request returned
    pm,          \* the process-wide LLMProviderManager (provider, model_name)
    esc,         \* per grading task: position in HybridGrader._escalate_grading
    env,         \* the environment variables PROVIDER and MODEL_NAME
    grading,     \* one HybridGrader.grade_answer call: arguments and result
    rule         \* one RuleBasedGrader.grade_answer call: arguments and result

vars == <<interview, call, response, pm, esc, env, grading, rule>>

ivars == <<interview, call, response>>
gvars == <<pm, esc, env, grading, rule>>

(***************************************************************************)
(* InterviewAgent.__init__                                                 *)
(***************************************************************************)
foundations == {"references", "ranges", "formatting"}
functions == {"if_functions", "vlookup", "index_match", "countif", "sumif",
              "text_functions", "date_functions"}
data_ops == {"sorting", "filtering", "pivot_tables", "validation",
             "conditional_formatting"}
analysis == {"whatif_analysis", "goal_seek", "statistics", "error_tracing"}
charts == {"charts"}

coverage_skills == foundations \cup functions \cup data_ops \cup analysis \cup charts

max_turns == 25

\* "require minimum 8 questions"
min_turns == 8

InterviewState == {"INTRO", "CALIBRATE", "CORE_Q", "DEEP_DIVE", "CASE",
                   "REVIEW", "SUMMARY"}

None == "None"

(***************************************************************************)
(* Python values.  A coverage vector is a dict: a function whose domain is *)
(* its key set; {} is the function with the empty domain.                  *)
(***************************************************************************)
EmptyDict == [k \in {} |-> 0]

\* dict.get(key, 0)
Get(d, k) == IF k \in DOMAIN d THEN d[k] ELSE 0

\* d[key] = value
Put(d, k, v) == [x \in (DOMAIN d) \cup {k} |-> IF x = k THEN v ELSE d[x]]

\* {skill: 0 for skill in self.coverage_skills}
ZeroCoverage == [s \in coverage_skills |-> 0]

Max(a, b) == IF a >= b THEN a ELSE b
Min(a, b) == IF a <= b THEN a ELSE b

RECURSIVE SumGet(_, _)
\* sum(coverage_vector.get(skill, 0) for skill in S)
SumGet(d, S) ==
    IF S = {} THEN 0
    ELSE LET s == CHOOSE x \in S : TRUE IN Get(d, s) + SumGet(d, S \ {s})

\* A str and a member of the plain Enum InterviewState: `==` between them is
\* False whatever their text, and `in [members]` uses `==`.
Str(v) == [type |-> "str", val |-> v]
Member(v) == [type |-> "InterviewState", val |-> v]
PyEq(a, b) == a.type = b.type /\ a.val = b.val
PyIn(a, list) == \E b \in list : PyEq(a, b)

(***************************************************************************)
(* Responses of the agent.  Absent keys are None.                          *)
(***************************************************************************)
Resp(st, q, skill, diff, action, cv, reason) ==
    [kind |-> "ok", state |-> st, question |-> q, target_skill |-> skill,
     difficulty |-> diff, next_action |-> action, coverage_vector |-> cv,
     end_reason |-> reason]

\* an exception leaving the agent: /turn answers HTTP 500
Raised(what) ==
    [kind |-> "error", state |-> None, question |-> what, target_skill |-> None,
     difficulty |-> 0, next_action |-> None, coverage_vector |-> EmptyDict,
     end_reason |-> None]

NoResponse ==
    [kind |-> "none", state |-> None, question |-> None, target_skill |-> None,
     difficulty |-> 0, next_action |-> None, coverage_vector |-> EmptyDict,
     end_reason |-> None]

\* InterviewAgent._end_interview
_end_interview(reason) ==
    Resp("SUMMARY", "completed", None, 0, "END_INTERVIEW", EmptyDict, reason)

\* InterviewAgent.start_interview
start_interview ==
    Resp("INTRO", "intro", "introduction", 1, "AWAIT_ANSWER", ZeroCoverage, None)

\* InterviewAgent._generate_skill_question: a template for three skills at
\* difficulty 2 and 3, the generic sentence otherwise
_generate_skill_question(skill, difficulty) ==
    IF skill \in {"vlookup", "if_functions", "pivot_tables"} /\ difficulty \in {2, 3}
    THEN "template_question" ELSE "generic_question"

\* provider_manager.generate_interview_question is a coroutine function and
\* the agent calls it without await: what json.loads receives is the
\* coroutine object, whatever the provider would have answered.
generate_interview_question(llm) == [type |-> "coroutine", content |-> llm]

\* json.loads: a TypeError on anything that is not text, a ValueError on
\* malformed text
JsonLoadsRaises(x) == x.type # "str" \/ x.content.wellformed = FALSE

\* What the provider would answer to the calibration prompt: a JSON object
\* naming a skill, text that is not the required object, or a transport
\* error raised by the client.
LLMOutcomes ==
    {[raises |-> FALSE, wellformed |-> TRUE, target_skill |-> "references"],
     [raises |-> FALSE, wellformed |-> TRUE, target_skill |-> "vlookup"],
     [raises |-> FALSE, wellformed |-> FALSE, target_skill |-> None],
     [raises |-> TRUE, wellformed |-> FALSE, target_skill |-> None]}

\* no calibration question is generated: nothing is expected of the provider
NoLLM == [raises |-> FALSE, wellformed |-> FALSE, target_skill |-> None]

\* mutant of _transition_to_calibrate_except: the exception let through
_transition_to_calibrate_reraise(cv) == Raised("TypeError")

\* InterviewAgent._transition_to_calibrate, the except branch: the fixed
\* calibration question; the coverage vector is returned as it came
_transition_to_calibrate_except(cv) ==
    Resp("CALIBRATE", "calibration_fallback", "basic_formulas", 1,
         "AWAIT_ANSWER", cv, None)

\* InterviewAgent._transition_to_calibrate when the provider would answer llm
_transition_to_calibrate(cv, llm) ==
    IF JsonLoadsRaises(generate_interview_question(llm))
    THEN _transition_to_calibrate_except(cv)
    ELSE LET skill == llm.target_skill
         IN Resp("CALIBRATE", "llm_question", skill, 1, "AWAIT_ANSWER",
                 Put(cv, skill, Max(Get(cv, skill), 1)), None)

\* min(priority_skills, key=...): the first of the list with the least value.
\* The list order is foundations then functions as written in __init__.
priority_order ==
    <<"references", "ranges", "formatting", "if_functions", "vlookup",
      "index_match", "countif", "sumif", "text_functions", "date_functions">>

FirstMin(cv) ==
    LET least == CHOOSE i \in 1..Len(priority_order) :
                    /\ \A j \in 1..Len(priority_order) :
                          Get(cv, priority_order[i]) <= Get(cv, priority_order[j])
                    /\ \A j \in 1..(i - 1) :
                          Get(cv, priority_order[j]) > Get(cv, priority_order[i])
    IN priority_order[least]

\* mutant of _transition_to_core: the level of the question stored whatever
\* the level reached before
_transition_to_core_set(cv) ==
    LET priority_skills == foundations \cup functions
        uncovered_skills == {s \in priority_skills : Get(cv, s) = 0}
        targets == IF uncovered_skills # {} THEN uncovered_skills ELSE {FirstMin(cv)}
    IN {Resp("CORE_Q", _generate_skill_question(t, 2), t, 2, "AWAIT_ANSWER",
             Put(cv, t, 2), None) : t \in targets}

\* InterviewAgent._transition_to_core
_transition_to_core(cv) ==
    LET priority_skills == foundations \cup functions
        uncovered_skills == {s \in priority_skills : Get(cv, s) = 0}
        targets == IF uncovered_skills # {} THEN uncovered_skills ELSE {FirstMin(cv)}
    IN {Resp("CORE_Q", _generate_skill_question(t, 2), t, 2, "AWAIT_ANSWER",
             Put(cv, t, Max(Get(cv, t), 2)), None) : t \in targets}

\* mutant of _continue_core_questions: the skill picked among all skills
\* whatever their coverage
_continue_core_questions_any(cv) ==
    LET all_skills == foundations \cup functions \cup data_ops
    IN {Resp("CORE_Q", _generate_skill_question(s, 2), s, 2, "AWAIT_ANSWER",
             Put(cv, s, Max(Get(cv, s), 2)), None) : s \in all_skills}

\* InterviewAgent._continue_core_questions
_continue_core_questions(cv) ==
    LET all_skills == foundations \cup functions \cup data_ops
        uncovered == {s \in all_skills : Get(cv, s) < 2}
        picks == IF uncovered # {}
                 THEN {<<s, 2>> : s \in uncovered}
                 ELSE {<<s, Min(3, Get(cv, s) + 1)>> : s \in all_skills}
    IN {Resp("CORE_Q", _generate_skill_question(p[1], p[2]), p[1], p[2],
             "AWAIT_ANSWER", Put(cv, p[1], Max(Get(cv, p[1]), p[2])), None)
        : p \in picks}

\* InterviewAgent._transition_to_case
_transition_to_case(cv) ==
    Resp("CASE", "case", "case_analysis", 3, "AWAIT_ANSWER", cv, None)

\* mutant of _transition_to_review: the case answer sent back to the core
\* questions
_transition_to_review_core(cv) ==
    Resp("CORE_Q", "review", "review", 1, "AWAIT_ANSWER", cv, None)

\* InterviewAgent._transition_to_review
_transition_to_review(cv) ==
    Resp("REVIEW", "review", "review", 1, "AWAIT_ANSWER", cv, None)

\* InterviewAgent._transition_to_summary
_transition_to_summary ==
    Resp("SUMMARY", "conclusion", "conclusion", 1, "END_INTERVIEW", EmptyDict, None)

\* mutant of _needs_deep_dive: the average left out of the test
_needs_deep_dive_total(cv) ==
    LET core_skills == foundations \cup functions
        total_asked == SumGet(cv, core_skills)
    IN total_asked >= 15

\* InterviewAgent._needs_deep_dive: avg_coverage = total / len(core_skills)
_needs_deep_dive(cv) ==
    LET core_skills == foundations \cup functions
        total_asked == SumGet(cv, core_skills)
    IN total_asked >= 3 * Cardinality(core_skills) /\ total_asked >= 15

\* InterviewAgent._core_coverage_sufficient
_core_coverage_sufficient(cv) ==
    LET core_skills == foundations \cup functions
        covered_count == Cardinality({s \in core_skills : Get(cv, s) >= 2})
        total_asked == SumGet(cv, core_skills)
    IN covered_count >= 8 /\ total_asked >= 12

\* InterviewAgent._deep_dive_complete
_deep_dive_complete(cv) ==
    Cardinality({s \in analysis : Get(cv, s) >= 3}) >= 2

\* InterviewAgent has no method _transition_to_deep_dive and none called
\* _continue_deep_dive: the attribute lookup raises AttributeError.
_transition_to_deep_dive(cv) == Raised("AttributeError")
_continue_deep_dive(cv) == Raised("AttributeError")

\* InterviewAgent._state_transition: the set of responses it can return
\* (random.choice picks the skill) when the provider would answer llm
_state_transition(current_state, cv, llm) ==
    CASE current_state = "INTRO" -> {_transition_to_calibrate(cv, llm)}
      [] current_state = "CALIBRATE" -> _transition_to_core(cv)
      [] current_state = "CORE_Q" ->
            IF _needs_deep_dive(cv) THEN {_transition_to_deep_dive(cv)}
            ELSE IF _core_coverage_sufficient(cv) THEN {_transition_to_case(cv)}
            ELSE _continue_core_questions(cv)
      [] current_state = "DEEP_DIVE" ->
            IF _deep_dive_complete(cv) THEN {_transition_to_case(cv)}
            ELSE {_continue_deep_dive(cv)}
      [] current_state = "CASE" -> {_transition_to_review(cv)}
      [] current_state = "REVIEW" -> {_transition_to_summary}
      [] OTHER -> {_end_interview("Interview complete")}

\* mutants of TurnLimitReached: the limit itself let through, the comparison
\* flipped
TurnLimitReached_strict(turn_count) == turn_count > max_turns
TurnLimitReached_flipped(turn_count) == turn_count <= max_turns

\* process_turn, "Check termination conditions"
TurnLimitReached(turn_count) == turn_count >= max_turns

\* mutant of ForcedState: the minimum length raised past the turn at which
\* the closing path starts
ForcedState_late(current_state, turn_count) ==
    IF turn_count < min_turns + 4
    THEN IF PyIn(Str(current_state), {Member("INTRO"), Member("CALIBRATE")})
         THEN current_state
         ELSE "CORE_Q"
    ELSE current_state

\* process_turn, "PREVENT EARLY TERMINATION": the state the turn is processed in
ForcedState(current_state, turn_count) ==
    IF turn_count < min_turns
    THEN IF PyIn(Str(current_state), {Member("INTRO"), Member("CALIBRATE")})
         THEN current_state
         ELSE "CORE_Q"
    ELSE current_state

\* InterviewAgent.process_turn on the row `row` (absent: row.exists = FALSE)
process_turn(row, current_state, llm) ==
    IF ~row.exists THEN {Raised("ValueError")}
    ELSE LET turn_count == row.turns IN
         IF TurnLimitReached(turn_count)
         THEN {_end_interview("Maximum turns reached")}
         ELSE LET state == ForcedState(current_state, turn_count)
                  coverage_vector == IF row.coverage_vector # EmptyDict
                                     THEN row.coverage_vector
                                     ELSE ZeroCoverage
              IN _state_transition(state, coverage_vector, llm)

(***************************************************************************)
(* storage: the Interview row, its Turn rows and InterviewRepository.  Of  *)
(* the Turn rows the model keeps their number (turns), the answer column   *)
(* of the latest one (answer, None until an answer is stored) and the      *)
(* number of rows whose grading columns are filled (graded).               *)
(***************************************************************************)
NoInterview ==
    [exists |-> FALSE, state |-> None, coverage_vector |-> EmptyDict, turns |-> 0,
     answer |-> None, graded |-> 0]

\* InterviewRepository.create_interview with the column defaults of Interview
create_interview ==
    [exists |-> TRUE, state |-> "INTRO", coverage_vector |-> EmptyDict, turns |-> 0,
     answer |-> None, graded |-> 0]

\* mutant of update_interview: the state keyword left out of the call
update_interview_nostate(row, st, cv) ==
    IF row.exists THEN [row EXCEPT !.coverage_vector = cv] ELSE row

\* InterviewRepository.update_interview(id, state=..., coverage_vector=...):
\* setattr of each keyword on the row, then commit; the row then holds the
\* values given.
update_interview(row, st, cv) ==
    IF row.exists THEN [row EXCEPT !.state = st, !.coverage_vector = cv] ELSE row

\* InterviewRepository.add_turn: a new latest Turn row, its answer and
\* grading columns null
add_turn(row) == [row EXCEPT !.turns = @ + 1, !.answer = None]

\* /turn, "Get the current turn to update with answer": the Turn row with
\* the highest turn_number, if there is one, gets
\* InterviewRepository.update_turn(current_turn.id, answer=request.answer)
update_turn(row, answer) ==
    IF row.turns > 0 THEN [row EXCEPT !.answer = answer] ELSE row

\* process_turn, "Grade the previous answer if this isn't the first turn":
\* the call of _grade_previous_answer is commented out and the block is
\* `pass`, so no grading column of any Turn row is written.
GradePreviousAnswer(row, turn_count) == row

\* the answers a candidate may submit
Answers == {"answer_a", "answer_b"}

NoCall ==
    [made |-> FALSE, found |-> FALSE, current_state |-> None, turn_count |-> 0,
     calibrating |-> FALSE, llm |-> NoLLM]

(***************************************************************************)
(* main.py: POST /start                                                    *)
(***************************************************************************)
StartInterview ==
    /\ ~interview.exists
    /\ interview' = add_turn(create_interview)
    /\ response' = start_interview
    /\ call' = NoCall
    /\ UNCHANGED gvars

\* the turn is processed in INTRO: _transition_to_calibrate runs
Calibrates(row) ==
    /\ row.exists
    /\ ~TurnLimitReached(row.turns)
    /\ ForcedState(row.state, row.turns) = "INTRO"

(***************************************************************************)
(* main.py: POST /turn.  The answer is stored in the latest Turn row and   *)
(* committed before the agent runs.  An exception anywhere is answered     *)
(* with HTTP 500; what was committed before it stays.                      *)
(***************************************************************************)
ProcessTurn ==
    /\ \E llm \in (IF Calibrates(interview) THEN LLMOutcomes ELSE {NoLLM}) :
       \E r \in process_turn(interview, interview.state, llm) :
       \E answer \in Answers :
          LET answered == IF interview.exists THEN update_turn(interview, answer)
                          ELSE interview
              graded == GradePreviousAnswer(answered, answered.turns)
          IN /\ response' = r
             /\ interview' =
                   IF r.kind = "ok"
                   THEN LET updated == update_interview(graded, r.state,
                                                        r.coverage_vector)
                        IN IF r.next_action # "END_INTERVIEW"
                           THEN add_turn(updated) ELSE updated
                   ELSE graded
             /\ call' = [made |-> TRUE, found |-> interview.exists,
                         current_state |-> interview.state,
                         turn_count |-> interview.turns,
                         calibrating |-> Calibrates(interview), llm |-> llm]
    /\ UNCHANGED gvars

\* One /turn request on a row that no request has touched yet.
TurnOnce == ~call.made /\ ProcessTurn

(***************************************************************************)
(* llm/provider_abstraction.py: the process-wide provider_manager          *)
(***************************************************************************)
Providers == {"gemini", "groq", "claude"}

\* LLMProviderManager._get_default_model
_get_default_model(provider) ==
    CASE provider = "gemini" -> "gemini-2.0-flash-exp"
      [] provider = "groq" -> "llama-3.1-70b-versatile"
      [] provider = "claude" -> "claude-3-5-sonnet-20241022"
      [] OTHER -> "gemini-2.0-flash-exp"

\* LLMProviderManager.switch_provider(provider, model_name=None)
switch_provider(p, provider, model_name) ==
    [provider |-> provider,
     model_name |-> IF model_name # None THEN model_name
                    ELSE _get_default_model(provider)]

(***************************************************************************)
(* graders/hybrid.py: HybridGrader._escalate_grading, one coroutine per    *)
(* grading task.  The coroutine is suspended only at its await of the      *)
(* re-grade; everything else runs without interleaving.                    *)
(***************************************************************************)
NumTasks == 2
Tasks == 1..NumTasks

\* served_by: the provider whose client served the task's first (ordinary)
\* LLM grading call, None while the task has made no such call
IdleTask == [pc |-> "idle", original_provider |-> None, llm_result |-> FALSE,
             outcome |-> None, grading_method |-> None, llm_score |-> None,
             served_by |-> None]

\* what _escalate_grading returns, as far as the method tag and the source
\* of llm_score go: lines 237-245 after a re-grade, lines 256-265 with an
\* earlier LLM result to fall back on, lines 267-275 without one
EscalationResult(outcome, llm_result) ==
    IF outcome = "graded"
    THEN [grading_method |-> "escalated_claude", llm_score |-> "claude_result"]
    ELSE IF llm_result
    THEN [grading_method |-> "escalation_failed", llm_score |-> "llm_result"]
    ELSE [grading_method |-> "escalation_failed", llm_score |-> None]

\* mutant of _escalate_finally: the switch back made to the default provider
_escalate_finally_default(p, original_provider) ==
    switch_provider(p, "gemini", None)

\* mutant of _escalate_finally: no switch back
_escalate_finally_none(p, original_provider) == p

\* the finally clause: "Switch back to original provider"
_escalate_finally(p, original_provider) ==
    switch_provider(p, original_provider, None)

\* HybridGrader.grade_answer lines 55-60, the ordinary LLM grading call of a
\* task: LLMBasedGrader.grade_answer calls provider_manager.grade_answer,
\* which takes the client of the provider that is active at that moment
\* (LLMProviderManager._get_client) and awaits its completion.
GradeLLM(t) ==
    /\ esc[t].pc = "idle"
    /\ esc[t].served_by = None
    /\ esc' = [esc EXCEPT ![t].served_by = pm.provider]
    /\ UNCHANGED <<pm, ivars, env, grading, rule>>

\* grade_answer lines 72-80: the call returns without escalating, and the
\* task's interview grades its next answer
GradeAgain(t) ==
    /\ esc[t].pc = "idle"
    /\ esc[t].served_by # None
    /\ esc' = [esc EXCEPT ![t] = IdleTask]
    /\ UNCHANGED <<pm, ivars, env, grading, rule>>

\* lines 221-229: read the active provider, switch to Claude unless it is
\* the active one already, and suspend in the re-grade; with Claude active
\* the method falls through to "Fallback to best available result".
\* llm_result: whether the first LLM grading produced a result (an LLM
\* grading call always does, LLMBasedGrader.grade_answer lines 62-79).
EscalateBegin(t) ==
    /\ esc[t].pc = "idle"
    /\ LET llm_result == esc[t].served_by # None
           original_provider == pm.provider IN
          IF original_provider # "claude"
          THEN /\ pm' = switch_provider(pm, "claude", "claude-3-5-sonnet-20241022")
               /\ esc' = [esc EXCEPT ![t] =
                             [esc[t] EXCEPT !.pc = "awaiting",
                                            !.original_provider = original_provider,
                                            !.llm_result = llm_result]]
          ELSE LET r == EscalationResult("skipped", llm_result) IN
               /\ pm' = pm
               /\ esc' = [esc EXCEPT ![t] =
                             [esc[t] EXCEPT !.pc = "returned",
                                            !.original_provider = original_provider,
                                            !.llm_result = llm_result,
                                            !.outcome = "skipped",
                                            !.grading_method = r.grading_method,
                                            !.llm_score = r.llm_score]]
    /\ UNCHANGED <<ivars, env, grading, rule>>

\* lines 232-275: the re-grade comes back and the result is built
\* ("graded"), or building it raises ("raised": a confidence or score that
\* is no number); the finally clause runs on both paths.
EscalateReturn(t) ==
    /\ esc[t].pc = "awaiting"
    /\ \E outcome \in {"graded", "raised"} :
          LET r == EscalationResult(outcome, esc[t].llm_result) IN
          esc' = [esc EXCEPT ![t] =
                     [esc[t] EXCEPT !.pc = "returned",
                                    !.outcome = outcome,
                                    !.grading_method = r.grading_method,
                                    !.llm_score = r.llm_score]]
    /\ pm' = _escalate_finally(pm, esc[t].original_provider)
    /\ UNCHANGED <<ivars, env, grading, rule>>

\* the task's next grade_answer call that escalates
EscalateAgain(t) ==
    /\ esc[t].pc = "returned"
    /\ esc' = [esc EXCEPT ![t] = IdleTask]
    /\ UNCHANGED <<pm, ivars, env, grading, rule>>

(***************************************************************************)
(* The graders.  Fixed point: a score out of 100 is held in hundredths of  *)
(* a point (81.5 is 8150) and a number on the 0..1 scale (a rule score, a  *)
(* confidence) in thousandths (0.8 is 800).  A list of error tags is held  *)
(* as the set of its elements.                                             *)
(***************************************************************************)
Points(p) == p * 100

\* x * 100 for x on the 0..1 scale: thousandths to hundredths of a point
Times100(x) == x * 10

Abs(x) == IF x < 0 THEN 0 - x ELSE x

\* a Python value that is a number, None, or a str
Num(n) == [type |-> "number", n |-> n]
PyNone == [type |-> "NoneType", n |-> 0]
PyStr == [type |-> "str", n |-> 0]
IsNum(v) == v.type = "number"

\* The answer text, by what the graders measure of it: len(answer),
\* len(answer.strip()), len(answer.split()), "=" in answer, and whether
\* answer.upper() holds one of SUM( VLOOKUP( IF( COUNTIF( INDEX( MATCH(.
AnswerInputs ==
    {a \in [chars : {6, 24, 120}, stripped : {6, 120}, words : {1, 60},
            equals : BOOLEAN, function : BOOLEAN] :
        /\ a.stripped <= a.chars
        /\ 2 * a.words - 1 <= a.stripped}

\* HybridGrader.__init__
rule_heavy_skills == {"references", "basic_formulas", "vlookup", "if_functions"}
llm_heavy_skills == {"pivot_tables", "case_analysis", "charts", "best_practices"}
escalation_threshold == 500
disagreement_threshold == Points(20)

\* rule_based.py: RuleResult(passed, score, error_tags, feedback); every
\* policy of RuleBasedGrader returns passed = (score >= 0.6)
RuleResult(score, error_tags) ==
    [present |-> TRUE, passed |-> score >= 600, score |-> score,
     error_tags |-> error_tags]

\* rule_result = None
NoRuleResult == [present |-> FALSE, passed |-> FALSE, score |-> 0, error_tags |-> {}]

\* RuleBasedGrader.grade_answer: the results drawn on, sums of its partial
\* credits with and without an error tag
RuleOutcomes ==
    {RuleResult(score, tags) :
        score \in {0, 300, 800},
        tags \in {{}, {"no_lookup_function"}}}

\* llm_based.py: LLMGradingResult
LLMGradingResult(total_score, error_tags, confidence) ==
    [present |-> TRUE, total_score |-> total_score, error_tags |-> error_tags,
     confidence |-> confidence]

\* llm_result = None
NoLLMResult ==
    [present |-> FALSE, total_score |-> PyNone, error_tags |-> {},
     confidence |-> PyNone]

\* What one LLM grading call comes back with:
\*   object     a JSON object with numeric total_score and confidence
\*   exception  client.generate raises
\*   not_json   text that json.loads rejects, or JSON that is no object
\*   no_fields  a JSON object without the grading fields (MockLLMClient's
\*              {"question": ..., "difficulty": ..., "skill": ...})
\*   strings    a JSON object whose total_score and confidence are strings
Reply(kind, total_score, confidence, error_tags) ==
    [kind |-> kind, total_score |-> total_score, confidence |-> confidence,
     error_tags |-> error_tags]

NoReply == Reply("none", 0, 0, {})

LLMReplies ==
    {Reply("object", Points(s), c, tags) :
        s \in {40, 85, 90}, c \in {400, 900},
        tags \in {{}, {"incomplete_explanation"}}}
    \cup {Reply(k, 0, 0, {}) : k \in {"exception", "not_json", "no_fields", "strings"}}

\* LLMBasedGrader._fallback_grading
_fallback_grading(answer) ==
    LET base_score == Points(60)
        short == IF answer.stripped < 20 THEN Points(20) ELSE 0
        formula == IF answer.equals THEN Points(10) ELSE 0
        detailed == IF answer.words > 50 THEN Points(10) ELSE 0
    IN LLMGradingResult(Num(base_score - short + formula + detailed),
                        {"llm_grading_failed"}, Num(300))

\* LLMBasedGrader.grade_answer: the reply parsed with json.loads and read
\* with .get(key, default); any exception gives the fallback grading
llm_grader_grade_answer(answer, reply) ==
    CASE reply.kind = "object" ->
            LLMGradingResult(Num(reply.total_score), reply.error_tags,
                             Num(reply.confidence))
      [] reply.kind = "no_fields" -> LLMGradingResult(Num(0), {}, Num(500))
      [] reply.kind = "strings" -> LLMGradingResult(PyStr, {}, PyStr)
      [] OTHER -> _fallback_grading(answer)

\* LLMBasedGrader._build_grading_prompt, as far as the rule grader's result
\* goes: the section RULE-BASED ANALYSIS holds the rule_results it is given
\* and is left out when it is given None
_build_grading_prompt(rule_results) ==
    [built |-> TRUE, has_rule_analysis |-> rule_results.present,
     rule_analysis |-> rule_results]

\* no prompt is built
NoPrompt == [built |-> FALSE, has_rule_analysis |-> FALSE,
             rule_analysis |-> NoRuleResult]

\* mutant of _contains_formulas: only the equals sign counts
_contains_formulas_equals(answer) == answer.equals

\* HybridGrader._contains_formulas
_contains_formulas(answer) == answer.equals \/ answer.function

\* mutant of _needs_llm_grading: a rule score of exactly 0.3 counts as very low
_needs_llm_grading_le(rule_result, target_skill, difficulty, answer) ==
    \/ target_skill \in llm_heavy_skills
    \/ difficulty >= 3
    \/ rule_result.present /\ rule_result.score <= 300
    \/ answer.words > 50
    \/ rule_result.present /\ rule_result.error_tags # {} /\ answer.chars > 100

\* HybridGrader._needs_llm_grading
_needs_llm_grading(rule_result, target_skill, difficulty, answer) ==
    \/ target_skill \in llm_heavy_skills
    \/ difficulty >= 3
    \/ rule_result.present /\ rule_result.score < 300
    \/ answer.words > 50
    \/ rule_result.present /\ rule_result.error_tags # {} /\ answer.chars > 100

\* hybrid.py: HybridGradingResult, and the dict grade_answer returns
HybridGradingResult(rule_score, llm_score, hybrid_score, confidence, error_tags, grading_method) ==
    [kind |-> "ok", rule_score |-> rule_score, llm_score |-> llm_score,
     hybrid_score |-> hybrid_score, confidence |-> confidence,
     error_tags |-> error_tags, grading_method |-> grading_method]

\* an exception leaves the function
GradingRaised(what) ==
    [kind |-> what, rule_score |-> PyNone, llm_score |-> PyNone,
     hybrid_score |-> PyNone, confidence |-> PyNone, error_tags |-> {},
     grading_method |-> None]

NoResult == GradingRaised("none")

\* mutant of _combine_rule_only: confidence 0.8 whether the rule passed or not
_combine_rule_only_flat(rule_result) ==
    HybridGradingResult(Num(Times100(rule_result.score)), PyNone,
                        Num(Times100(rule_result.score)), Num(800),
                        rule_result.error_tags, "rule_only")

\* _combine_results lines 113-123, "Case 1: Only rule-based result"
_combine_rule_only(rule_result) ==
    HybridGradingResult(Num(Times100(rule_result.score)), PyNone,
                        Num(Times100(rule_result.score)),
                        Num(IF rule_result.passed THEN 800 ELSE 600),
                        rule_result.error_tags, "rule_only")

\* _combine_results lines 125-135, "Case 2: Only LLM result"
_combine_llm_only(llm_result) ==
    HybridGradingResult(PyNone, llm_result.total_score, llm_result.total_score,
                        llm_result.confidence, llm_result.error_tags, "llm_only")

\* mutant of _combine_agreement: the two weights exchanged
_combine_agreement_swapped(rule_result, llm_result, target_skill) ==
    LET rule_score == Times100(rule_result.score)
        llm_score == llm_result.total_score.n
        weight_rule == IF target_skill \in rule_heavy_skills THEN 3 ELSE 7
        weight_llm == 10 - weight_rule
        hybrid_score == (rule_score * weight_rule + llm_score * weight_llm) \div 10
        confidence == Min(900, 800 + llm_result.confidence.n) \div 2
    IN IF ~IsNum(llm_result.confidence) THEN GradingRaised("TypeError")
       ELSE HybridGradingResult(Num(rule_score), Num(llm_score), Num(hybrid_score),
                                Num(confidence),
                                rule_result.error_tags \cup llm_result.error_tags,
                                "hybrid")

\* _combine_results lines 145-164, "Scores agree - use weighted average";
\* weights in tenths.  RuleResult has no confidence attribute, so line 151
\* is min(0.9, 0.8 + llm_result.confidence) / 2, and raises TypeError on a
\* confidence that is a str.
_combine_agreement(rule_result, llm_result, target_skill) ==
    LET rule_score == Times100(rule_result.score)
        llm_score == llm_result.total_score.n
        weight_rule == IF target_skill \in rule_heavy_skills THEN 7 ELSE 3
        weight_llm == 10 - weight_rule
        hybrid_score == (rule_score * weight_rule + llm_score * weight_llm) \div 10
        confidence == Min(900, 800 + llm_result.confidence.n) \div 2
    IN IF ~IsNum(llm_result.confidence) THEN GradingRaised("TypeError")
       ELSE HybridGradingResult(Num(rule_score), Num(llm_score), Num(hybrid_score),
                                Num(confidence),
                                rule_result.error_tags \cup llm_result.error_tags,
                                "hybrid")

\* mutant of _combine_disagreement: the LLM score is always the primary one
_combine_disagreement_llm(rule_result, llm_result, target_skill) ==
    HybridGradingResult(Num(Times100(rule_result.score)),
                        Num(llm_result.total_score.n),
                        Num(llm_result.total_score.n), Num(600),
                        rule_result.error_tags \cup llm_result.error_tags
                           \cup {"scoring_disagreement"},
                        "disagreement")

\* _combine_results lines 166-184, "Significant disagreement"
_combine_disagreement(rule_result, llm_result, target_skill) ==
    LET rule_score == Times100(rule_result.score)
        llm_score == llm_result.total_score.n
        primary_score == IF target_skill \in rule_heavy_skills /\ rule_result.passed
                         THEN rule_score ELSE llm_score
    IN HybridGradingResult(Num(rule_score), Num(llm_score), Num(primary_score),
                           Num(600),
                           rule_result.error_tags \cup llm_result.error_tags
                              \cup {"scoring_disagreement"},
                           "disagreement")

\* mutant of _combine_fallback: the rule-only confidence on the fallback
_combine_fallback_sure ==
    HybridGradingResult(PyNone, PyNone, Num(Points(50)), Num(600),
                        {"grading_error"}, "fallback")

\* _combine_results lines 186-195, "Fallback case"
_combine_fallback ==
    HybridGradingResult(PyNone, PyNone, Num(Points(50)), Num(300),
                        {"grading_error"}, "fallback")

\* HybridGrader._combine_results; abs(rule_score - llm_score) raises
\* TypeError on a total_score that is a str
_combine_results(rule_result, llm_result, target_skill) ==
    IF rule_result.present /\ ~llm_result.present
    THEN _combine_rule_only(rule_result)
    ELSE IF llm_result.present /\ ~rule_result.present
    THEN _combine_llm_only(llm_result)
    ELSE IF rule_result.present /\ llm_result.present
    THEN IF ~IsNum(llm_result.total_score) THEN GradingRaised("TypeError")
         ELSE IF Abs(Times100(rule_result.score) - llm_result.total_score.n)
                    <= disagreement_threshold
         THEN _combine_agreement(rule_result, llm_result, target_skill)
         ELSE _combine_disagreement(rule_result, llm_result, target_skill)
    ELSE _combine_fallback

\* mutant of _needs_escalation: a confidence equal to the threshold escalates
_needs_escalation_le(hybrid_result, rule_result, llm_result) ==
    \/ hybrid_result.confidence.n <= escalation_threshold
    \/ "scoring_disagreement" \in hybrid_result.error_tags
    \/ hybrid_result.grading_method = "fallback"

\* HybridGrader._needs_escalation, for a confidence that is a number (the
\* comparison of line 203 raises TypeError on a str)
_needs_escalation(hybrid_result, rule_result, llm_result) ==
    \/ hybrid_result.confidence.n < escalation_threshold
    \/ "scoring_disagreement" \in hybrid_result.error_tags
    \/ hybrid_result.grading_method = "fallback"

\* "rule_score": rule_result.score * 100 if rule_result else None
RuleScoreField(rule_result) ==
    IF rule_result.present THEN Num(Times100(rule_result.score)) ELSE PyNone

\* _escalate_grading lines 255-275, "Fallback to best available result"
_escalate_fallback(rule_result, llm_result) ==
    IF llm_result.present
    THEN HybridGradingResult(RuleScoreField(rule_result), llm_result.total_score,
                             llm_result.total_score, llm_result.confidence,
                             llm_result.error_tags \cup {"escalation_failed"},
                             "escalation_failed")
    ELSE HybridGradingResult(RuleScoreField(rule_result), PyNone,
                             IF rule_result.present
                             THEN Num(Times100(rule_result.score))
                             ELSE Num(Points(50)),
                             Num(400),
                             {"escalation_failed", "grading_incomplete"},
                             "escalation_failed")

\* _escalate_grading lines 237-245: the dict built from the re-grade
_escalated_result(rule_result, claude_result) ==
    HybridGradingResult(RuleScoreField(rule_result), claude_result.total_score,
                        claude_result.total_score,
                        Num(Min(900, claude_result.confidence.n + 100)),
                        claude_result.error_tags, "escalated_claude")

\* HybridGrader._escalate_grading run to its end with no other task in
\* between: the result, the provider manager it leaves, and the provider
\* whose client served the re-grade (None when no re-grade is made).
\* claude_result.confidence + 0.1 raises TypeError on a str; the exception
\* is swallowed at line 251 after the finally clause has run.
_escalate_grading(p, answer, rule_result, llm_result, claude_reply) ==
    LET original_provider == p.provider IN
    IF original_provider # "claude"
    THEN LET switched == switch_provider(p, "claude", "claude-3-5-sonnet-20241022")
             claude_result == llm_grader_grade_answer(answer, claude_reply)
         IN [pm |-> _escalate_finally(switched, original_provider),
             regraded_by |-> switched.provider,
             prompt |-> _build_grading_prompt(rule_result),
             result |-> IF IsNum(claude_result.confidence)
                        THEN _escalated_result(rule_result, claude_result)
                        ELSE _escalate_fallback(rule_result, llm_result)]
    ELSE [pm |-> p, regraded_by |-> None, prompt |-> NoPrompt,
          result |-> _escalate_fallback(rule_result, llm_result)]

\* grade_answer lines 72-80: the dict returned without escalation
_grade_answer_result(rule_result, llm_result, hybrid_result) ==
    HybridGradingResult(RuleScoreField(rule_result),
                        IF llm_result.present THEN llm_result.total_score ELSE PyNone,
                        hybrid_result.hybrid_score, hybrid_result.confidence,
                        hybrid_result.error_tags, hybrid_result.grading_method)

\* the record of one grade_answer call before it is made
GradingArgs(answer, target_skill, difficulty) ==
    [done |-> FALSE, answer |-> answer, target_skill |-> target_skill,
     difficulty |-> difficulty, rule_result |-> NoRuleResult,
     llm_reply |-> NoReply, llm_result |-> NoLLMResult,
     hybrid_result |-> NoResult, escalated |-> FALSE,
     claude_reply |-> NoReply, regraded_by |-> None, served_by |-> None,
     prompt |-> NoPrompt, claude_prompt |-> NoPrompt,
     result |-> NoResult]

NoGrading == GradingArgs([chars |-> 0, stripped |-> 0, words |-> 0,
                          equals |-> FALSE, function |-> FALSE], None, 0)

\* HybridGrader.grade_answer with no other task in between.  rule_outcome is
\* what the rule grader returns if it runs, reply what the LLM call of line
\* 57 comes back with if it is made, claude_reply the same for the re-grade
\* of line 232.  The record keeps the intermediate values next to the
\* result, and p_after is the provider manager the call leaves behind.
grade_answer(p, g, rule_outcome, reply, claude_reply) ==
    LET rule_result ==
            IF g.target_skill \in rule_heavy_skills \/ _contains_formulas(g.answer)
            THEN rule_outcome ELSE NoRuleResult
        needs_llm == _needs_llm_grading(rule_result, g.target_skill,
                                        g.difficulty, g.answer)
        llm_result == IF needs_llm THEN llm_grader_grade_answer(g.answer, reply)
                      ELSE NoLLMResult
        hybrid_result == _combine_results(rule_result, llm_result, g.target_skill)
        combined == [g EXCEPT !.done = TRUE,
                              !.rule_result = rule_result,
                              !.llm_reply = IF needs_llm THEN reply ELSE NoReply,
                              !.served_by = IF needs_llm THEN p.provider ELSE None,
                              !.prompt = IF needs_llm
                                         THEN _build_grading_prompt(rule_result)
                                         ELSE NoPrompt,
                              !.llm_result = llm_result,
                              !.hybrid_result = hybrid_result]
    IN IF hybrid_result.kind # "ok"
       THEN [p_after |-> p, grading |-> [combined EXCEPT !.result = hybrid_result]]
       ELSE IF ~IsNum(hybrid_result.confidence)
       THEN [p_after |-> p,
             grading |-> [combined EXCEPT !.result = GradingRaised("TypeError")]]
       ELSE IF _needs_escalation(hybrid_result, rule_result, llm_result)
       THEN LET e == _escalate_grading(p, g.answer, rule_result, llm_result,
                                       claude_reply)
            IN [p_after |-> e.pm,
                grading |-> [combined EXCEPT
                                !.escalated = TRUE,
                                !.regraded_by = e.regraded_by,
                                !.claude_reply = IF e.regraded_by # None
                                                 THEN claude_reply ELSE NoReply,
                                !.claude_prompt = e.prompt,
                                !.result = e.result]]
       ELSE [p_after |-> p,
             grading |-> [combined EXCEPT
                             !.result = _grade_answer_result(rule_result, llm_result,
                                                             hybrid_result)]]

\* one grade_answer call on the arguments held in grading
GradeAnswer ==
    /\ ~grading.done
    /\ \E rule_outcome \in RuleOutcomes, reply \in LLMReplies,
          claude_reply \in LLMReplies :
          LET r == grade_answer(pm, grading, rule_outcome, reply, claude_reply) IN
          /\ grading' = r.grading
          /\ pm' = r.p_after
    /\ UNCHANGED <<ivars, esc, env, rule>>

(***************************************************************************)
(* graders/rule_based.py: RuleBasedGrader.  Credits and scores are in      *)
(* thousandths (0.1 = 100).  An answer to a VLOOKUP question is its text,  *)
(* a sequence of tokens, which the grader matches and splits as its        *)
(* regular expressions do; for the other policies an answer and a          *)
(* question are the outcomes of the keyword and pattern tests the policy   *)
(* makes on them.                                                          *)
(***************************************************************************)
PlainQuestion ==
    [absolute |-> FALSE, relative |-> FALSE, approximate |-> FALSE,
     nested |-> FALSE, sum |-> FALSE]

PlainAnswer ==
    [text |-> <<>>, absolute_ref |-> FALSE, relative_ref |-> FALSE, ranges |-> 0,
     words |-> 5, stripped |-> 30, explains |-> FALSE, if_match |-> FALSE,
     if_params |-> 0, comparison |-> FALSE, if_calls |-> 0, logical |-> FALSE,
     equals |-> FALSE, sum_match |-> FALSE, concepts |-> 0,
     pivot_keyword |-> FALSE, components |-> 0, steps |-> FALSE,
     functions |-> 0, numbered |-> FALSE]

\* RuleResult(passed=score >= 0.6, score=min(score, 1.0), ...): passed is
\* taken from the sum before it is capped
_rule_result(score, error_tags) ==
    [present |-> TRUE, passed |-> score >= 600, score |-> Min(score, 1000),
     error_tags |-> error_tags]

\* the positions of a token in a text
Positions(text, tok) == {i \in 1..Len(text) : text[i] = tok}

\* the least and the greatest member of a non-empty set of positions
Least(S) == CHOOSE i \in S : \A j \in S : i <= j
Greatest(S) == CHOOSE i \in S : \A j \in S : i >= j

\* text[from..to]
Slice(text, from, to) == [k \in 1..(to - from + 1) |-> text[from + k - 1]]

\* formula_patterns["vlookup"] anchored at position i:
\* VLOOKUP\s*\([^,]+,[^,]+,[^,]+,.*\) -- three non-empty comma-free groups,
\* a third comma, then anything up to the last closing parenthesis.  The
\* position of that parenthesis, 0 without a match.
VlookupEnd(text, i) ==
    IF ~(i + 1 <= Len(text) /\ text[i] = "VLOOKUP" /\ text[i + 1] = "(") THEN 0
    ELSE LET commas == {c \in Positions(text, ",") : c > i + 1} IN
         IF Cardinality(commas) < 3 THEN 0
         ELSE LET c1 == Least(commas)
                  c2 == Least(commas \ {c1})
                  c3 == Least(commas \ {c1, c2})
                  closing == {j \in Positions(text, ")") : j > c3}
              IN IF c1 > i + 2 /\ c2 > c1 + 1 /\ c3 > c2 + 1 /\ closing # {}
                 THEN Greatest(closing) ELSE 0

\* re.search(formula_patterns["vlookup"], answer, re.IGNORECASE).group(0):
\* the leftmost match, << >> when there is none
vlookup_match(text) ==
    LET starts == {i \in 1..Len(text) : VlookupEnd(text, i) > 0} IN
    IF starts = {} THEN <<>>
    ELSE Slice(text, Least(starts), VlookupEnd(text, Least(starts)))

RECURSIVE SplitParams(_, _, _)
\* _extract_function_params, the loop: split at the commas outside inner
\* parentheses; a last parameter that is empty is dropped
SplitParams(s, paren_depth, current_param) ==
    IF s = <<>> THEN (IF current_param # <<>> THEN <<current_param>> ELSE <<>>)
    ELSE LET char == Head(s) IN
         IF char = "," /\ paren_depth = 0
         THEN <<current_param>> \o SplitParams(Tail(s), 0, <<>>)
         ELSE SplitParams(Tail(s),
                          paren_depth + (IF char = "(" THEN 1
                                         ELSE IF char = ")" THEN -1 ELSE 0),
                          Append(current_param, char))

\* RuleBasedGrader._extract_function_params: re.search(r"\(([^)]+)\)") takes
\* the leftmost opening parenthesis that is followed by at least one token
\* and then a closing one, and the content up to the FIRST closing
\* parenthesis after it
_extract_function_params(function_str) ==
    LET closing_after(p) == {q \in Positions(function_str, ")") : q > p}
        matches == {p \in Positions(function_str, "(") :
                       closing_after(p) # {} /\ Least(closing_after(p)) > p + 1}
    IN IF matches = {} THEN <<>>
       ELSE LET p == Least(matches)
                q == Least(closing_after(p))
            IN SplitParams(Slice(function_str, p + 1, q - 1), 0, <<>>)

\* the tokens of the answers drawn on, by the tests _grade_vlookup makes
HasColon(tok) == tok \in {"B:C"}
IsDigit(param) == Len(param) = 1 /\ param[1] \in {"2"}
IsMatchFlag(param) == Len(param) = 1 /\ param[1] \in {"FALSE", "TRUE"}
IsAlternative(tok) == tok \in {"INDEX", "MATCH", "XLOOKUP", "FILTER"}
MentionsApproximate(tok) == tok \in {"approximate", "TRUE", "A1", "Table1"}

\* RuleBasedGrader._grade_vlookup
_grade_vlookup(question, answer, difficulty) ==
    LET vlookup_content == vlookup_match(answer.text)
        matched == vlookup_content # <<>>
        params == _extract_function_params(vlookup_content)
        enough == matched /\ Len(params) >= 3
        table_ok == enough /\ \E k \in 1..Len(params[2]) : HasColon(params[2][k])
        index_ok == enough /\ IsDigit(params[3])
        flag_ok == enough /\ Len(params) >= 4 /\ IsMatchFlag(params[4])
        alternative == \E k \in 1..Len(answer.text) : IsAlternative(answer.text[k])
        asked == question.approximate /\ difficulty >= 3
        discussed == \E k \in 1..Len(answer.text) : MentionsApproximate(answer.text[k])
        score == (IF matched THEN 400 ELSE 0)
                 + (IF enough THEN 200 ELSE 0)
                 + (IF table_ok THEN 100 ELSE 0)
                 + (IF index_ok THEN 100 ELSE 0)
                 + (IF flag_ok THEN 100 ELSE 0)
                 + (IF ~matched /\ alternative THEN 300 ELSE 0)
                 + (IF asked /\ discussed THEN 100 ELSE 0)
        error_tags == (IF enough /\ ~table_ok THEN {"invalid_table_array"} ELSE {})
                      \cup (IF enough /\ ~index_ok THEN {"invalid_column_index"} ELSE {})
                      \cup (IF matched /\ ~enough THEN {"incomplete_vlookup_params"} ELSE {})
                      \cup (IF ~matched /\ ~alternative THEN {"no_lookup_function"} ELSE {})
                      \cup (IF asked /\ ~discussed
                            THEN {"missing_approximate_match_discussion"} ELSE {})
    IN _rule_result(score, error_tags)

\* RuleBasedGrader._grade_references
_grade_references(question, answer, difficulty) ==
    LET score == (IF question.absolute /\ answer.absolute_ref THEN 500 ELSE 0)
                 + (IF question.relative /\ answer.relative_ref THEN 300 ELSE 0)
                 + (IF answer.ranges >= 1 THEN 200 ELSE 0)
                 + (IF answer.words > 10 /\ answer.explains THEN 200 ELSE 0)
        error_tags == (IF question.absolute /\ ~answer.absolute_ref
                       THEN {"missing_absolute_reference"} ELSE {})
                      \cup (IF question.relative /\ ~answer.relative_ref
                            THEN {"missing_relative_concept"} ELSE {})
    IN _rule_result(score, error_tags)

\* RuleBasedGrader._grade_if_functions
_grade_if_functions(question, answer, difficulty) ==
    LET enough == answer.if_match /\ answer.if_params >= 2
        score == (IF answer.if_match THEN 300 ELSE 0)
                 + (IF enough THEN 200 ELSE 0)
                 + (IF enough /\ answer.comparison THEN 100 ELSE 0)
                 + (IF enough /\ difficulty >= 3 /\ answer.if_calls > 1 THEN 200 ELSE 0)
                 + (IF difficulty >= 3 /\ answer.logical THEN 100 ELSE 0)
        error_tags == (IF enough /\ difficulty >= 3 /\ answer.if_calls <= 1
                          /\ question.nested
                       THEN {"missing_nested_if"} ELSE {})
                      \cup (IF ~answer.if_match THEN {"no_if_function"} ELSE {})
    IN _rule_result(score, error_tags)

\* RuleBasedGrader._grade_basic_formulas
_grade_basic_formulas(question, answer, difficulty) ==
    LET score == (IF answer.equals THEN 200 ELSE 0)
                 + (IF question.sum /\ answer.sum_match THEN 400 ELSE 0)
                 + (IF answer.ranges >= 1 THEN 200 ELSE 0)
                 + (IF answer.concepts >= 2 THEN 200 ELSE 0)
        error_tags == IF question.sum /\ ~answer.sum_match
                      THEN {"missing_sum_function"} ELSE {}
    IN _rule_result(score, error_tags)

\* RuleBasedGrader._grade_pivot_tables
_grade_pivot_tables(question, answer, difficulty) ==
    LET score == (IF answer.pivot_keyword THEN 300 ELSE 0)
                 + Min(300, answer.components * 100)
                 + (IF answer.steps THEN 200 ELSE 0)
    IN _rule_result(score, {})

\* RuleBasedGrader._grade_case_analysis
_grade_case_analysis(question, answer, difficulty) ==
    LET score == Min(400, answer.functions * 100)
                 + (IF answer.ranges >= 2 THEN 200 ELSE 0)
                 + (IF answer.numbered THEN 200 ELSE 0)
                 + (IF answer.explains THEN 200 ELSE 0)
    IN _rule_result(score, {})

\* RuleBasedGrader._grade_generic: passed from the score as it stands, the
\* score returned brought into [0, 1]
_grade_generic(question, answer, difficulty) ==
    LET score == 500 - (IF answer.stripped < 10 THEN 200 ELSE 0)
                     + (IF answer.words > 20 THEN 100 ELSE 0)
    IN [present |-> TRUE, passed |-> score >= 600,
        score |-> Min(Max(score, 0), 1000),
        error_tags |-> IF answer.stripped < 10 THEN {"answer_too_short"} ELSE {}]

\* RuleBasedGrader.grade_answer
rule_grader_grade_answer(question, answer, target_skill, difficulty) ==
    CASE target_skill = "references" -> _grade_references(question, answer, difficulty)
      [] target_skill = "vlookup" -> _grade_vlookup(question, answer, difficulty)
      [] target_skill = "if_functions" -> _grade_if_functions(question, answer, difficulty)
      [] target_skill = "basic_formulas" -> _grade_basic_formulas(question, answer, difficulty)
      [] target_skill = "pivot_tables" -> _grade_pivot_tables(question, answer, difficulty)
      [] target_skill = "case_analysis" -> _grade_case_analysis(question, answer, difficulty)
      [] OTHER -> _grade_generic(question, answer, difficulty)

\* the record of one RuleBasedGrader.grade_answer call before it is made;
\* written is the VLOOKUP call the candidate wrote, parameter by parameter
RuleArgs(question, answer, target_skill, difficulty, written) ==
    [done |-> FALSE, question |-> question, answer |-> answer,
     target_skill |-> target_skill, difficulty |-> difficulty,
     written |-> written, result |-> NoRuleResult]

NoWritten ==
    [lookup_value |-> <<>>, table_array |-> <<>>, col_index_num |-> <<>>,
     range_lookup |-> <<>>]

NoRuleCall == RuleArgs(PlainQuestion, PlainAnswer, None, 0, NoWritten)

\* one RuleBasedGrader.grade_answer call on the arguments held in rule
GradeByRule ==
    /\ ~rule.done
    /\ rule.target_skill # None
    /\ rule' = [rule EXCEPT
                  !.done = TRUE,
                  !.result = rule_grader_grade_answer(rule.question, rule.answer,
                                                      rule.target_skill,
                                                      rule.difficulty)]
    /\ UNCHANGED <<ivars, pm, esc, env, grading>>

(***************************************************************************)
(* Specifications                                                          *)
(***************************************************************************)
\* LLMProviderManager.__init__ with PROVIDER and MODEL_NAME unset
DefaultManager == [provider |-> "gemini", model_name |-> _get_default_model("gemini")]

UnsetEnv == [PROVIDER |-> None, MODEL_NAME |-> None]

\* str.lower() on the provider names an environment may give
Lower(name) == IF name = "Claude" THEN "claude" ELSE name

\* LLMProviderManager.__init__: os.getenv("PROVIDER", "gemini").lower() and
\* os.getenv("MODEL_NAME", self._get_default_model())
LLMProviderManager(e) ==
    LET provider == IF e.PROVIDER = None THEN "gemini" ELSE Lower(e.PROVIDER) IN
    [provider |-> provider,
     model_name |-> IF e.MODEL_NAME = None THEN _get_default_model(provider)
                    ELSE e.MODEL_NAME]

InitInterview ==
    /\ interview = NoInterview
    /\ call = NoCall
    /\ response = NoResponse

InitGrader ==
    /\ env = UnsetEnv
    /\ pm = DefaultManager
    /\ esc = [t \in Tasks |-> IdleTask]
    /\ grading = NoGrading
    /\ rule = NoRuleCall

\* Interviews as the server runs them: /start, then /turn requests.
Init == InitInterview /\ InitGrader

Next == StartInterview \/ ProcessTurn

Spec == Init /\ [][Next]_vars

\* process_turn as a function of the row it finds: rows drawn from bounded
\* sets of states, turn counts and coverage vectors.
MaxTurnInput == 26

TurnCountInputs == {1, min_turns - 1, min_turns, max_turns - 1} \cup (max_turns..MaxTurnInput)

\* n3 core skills at level 3, the next n2 at level 2, the others at level 0;
\* a3 analysis skills at level 3; every data_ops skill at level d.
analysis_order == <<"whatif_analysis", "goal_seek", "statistics", "error_tracing">>

CoverageInput(n3, n2, a3, d) ==
    [s \in coverage_skills |->
        IF \E i \in 1..n3 : priority_order[i] = s THEN 3
        ELSE IF \E i \in (n3 + 1)..(n3 + n2) : priority_order[i] = s THEN 2
        ELSE IF \E i \in 1..a3 : analysis_order[i] = s THEN 3
        ELSE IF s \in data_ops THEN d
        ELSE 0]

CoverageInputs ==
    {EmptyDict} \cup
    {CoverageInput(n[1], n[2], a3, d) :
        n \in {m \in (0..10) \X (0..10) : m[1] + m[2] <= 10},
        a3 \in 0..Len(analysis_order), d \in {0, 2}}

InitTurn ==
    /\ interview \in [exists : {TRUE}, state : InterviewState,
                      coverage_vector : CoverageInputs, turns : TurnCountInputs,
                      answer : {None}, graded : {0}]
    /\ call = NoCall
    /\ response = NoResponse
    /\ InitGrader

NextTurn == TurnOnce

SpecTurn == InitTurn /\ [][NextTurn]_vars

\* Escalations of concurrent grading tasks on one event loop, from every
\* configured provider and model.
InitEsc ==
    /\ InitInterview
    /\ env \in [PROVIDER : {None, "gemini", "groq", "claude", "Claude"},
                MODEL_NAME : {None, "env-model"}]
    /\ pm = LLMProviderManager(env)
    /\ esc = [t \in Tasks |-> IdleTask]
    /\ grading = NoGrading
    /\ rule = NoRuleCall

NextEsc ==
    \E t \in Tasks :
       \/ GradeLLM(t)
       \/ GradeAgain(t)
       \/ EscalateBegin(t)
       \/ EscalateReturn(t)
       \/ EscalateAgain(t)

SpecEsc == InitEsc /\ [][NextEsc]_vars

\* grade_answer as a function of its arguments, of what its graders and the
\* LLM give back, and of the configured provider.
SkillInputs == {"vlookup", "pivot_tables", "sumif"}

DifficultyInputs == {1, 3}

InitGrade ==
    /\ InitInterview
    /\ env \in [PROVIDER : {None, "claude"}, MODEL_NAME : {None}]
    /\ pm = LLMProviderManager(env)
    /\ esc = [t \in Tasks |-> IdleTask]
    /\ grading \in {GradingArgs(a, s, d) :
                       a \in AnswerInputs, s \in SkillInputs, d \in DifficultyInputs}
    /\ rule = NoRuleCall

NextGrade == GradeAnswer

SpecGrade == InitGrade /\ [][NextGrade]_vars

\* RuleBasedGrader.grade_answer as a function of its arguments.  The VLOOKUP
\* calls a candidate may write, parameter by parameter: a cell or a nested
\* call as lookup value, a range or a name as table array, a number or a
\* word as column index, and no match flag, FALSE or TRUE.
VlookupCalls ==
    [lookup_value : {<<"E5">>, <<"A1">>, <<"TRIM", "(", "E5", ")">>},
     table_array : {<<"B:C">>, <<"Table1">>},
     col_index_num : {<<"2">>, <<"two">>},
     range_lookup : {<<>>, <<"FALSE">>, <<"TRUE">>}]

\* the text of a call as the candidate types it
Formula(w) ==
    <<"=", "VLOOKUP", "(">> \o w.lookup_value \o <<",">> \o w.table_array
       \o <<",">> \o w.col_index_num
       \o (IF w.range_lookup = <<>> THEN <<>> ELSE <<",">> \o w.range_lookup)
       \o <<")">>

\* answers that hold no VLOOKUP call
ProseAnswers == {<<"use", "INDEX", "MATCH">>, <<"dunno">>}

VlookupInputs ==
    {RuleArgs([PlainQuestion EXCEPT !.approximate = ap],
              [PlainAnswer EXCEPT !.text = Formula(w)], "vlookup", d, w) :
        w \in VlookupCalls, ap \in BOOLEAN, d \in DifficultyInputs}
    \cup {RuleArgs([PlainQuestion EXCEPT !.approximate = ap],
                   [PlainAnswer EXCEPT !.text = t], "vlookup", d, NoWritten) :
             t \in ProseAnswers, ap \in BOOLEAN, d \in DifficultyInputs}

\* a range holds cell references, so an answer with a range matches the
\* relative reference pattern
ReferencesInputs ==
    {RuleArgs([PlainQuestion EXCEPT !.absolute = qa, !.relative = qr],
              [PlainAnswer EXCEPT !.absolute_ref = aa, !.relative_ref = r[1],
                                  !.ranges = r[2], !.words = e[1], !.explains = e[2]],
              "references", 1, NoWritten) :
        qa \in BOOLEAN, qr \in BOOLEAN, aa \in BOOLEAN,
        r \in {<<FALSE, 0>>, <<TRUE, 0>>, <<TRUE, 1>>},
        e \in {<<5, FALSE>>, <<12, FALSE>>, <<12, TRUE>>}}

\* an IF call that matches has at least one call counted and one parameter
IfInputs ==
    {RuleArgs([PlainQuestion EXCEPT !.nested = qn],
              [PlainAnswer EXCEPT !.if_match = m[1], !.if_params = m[2],
                                  !.if_calls = m[3], !.comparison = c,
                                  !.logical = l],
              "if_functions", d, NoWritten) :
        qn \in BOOLEAN, c \in BOOLEAN, l \in BOOLEAN, d \in DifficultyInputs,
        m \in {<<FALSE, 0, 0>>, <<TRUE, 1, 2>>, <<TRUE, 2, 1>>, <<TRUE, 3, 2>>}}

BasicInputs ==
    {RuleArgs([PlainQuestion EXCEPT !.sum = qs],
              [PlainAnswer EXCEPT !.equals = eq, !.sum_match = sm, !.ranges = n,
                                  !.concepts = c],
              "basic_formulas", 1, NoWritten) :
        qs \in BOOLEAN, eq \in BOOLEAN, sm \in BOOLEAN, n \in {0, 1}, c \in {1, 2}}

PivotInputs ==
    {RuleArgs(PlainQuestion,
              [PlainAnswer EXCEPT !.pivot_keyword = k, !.components = n, !.steps = st],
              "pivot_tables", 2, NoWritten) :
        k \in BOOLEAN, n \in 0..5, st \in BOOLEAN}

CaseInputs ==
    {RuleArgs(PlainQuestion,
              [PlainAnswer EXCEPT !.functions = f, !.ranges = n, !.numbered = nb,
                                  !.explains = e],
              "case_analysis", 3, NoWritten) :
        f \in 0..7, n \in 0..2, nb \in BOOLEAN, e \in BOOLEAN}

\* every other skill: the generic policy on a short, a plain and a long answer
GenericInputs ==
    {RuleArgs(PlainQuestion,
              [PlainAnswer EXCEPT !.stripped = a[1], !.words = a[2]],
              "sumif", 1, NoWritten) :
        a \in {<<5, 1>>, <<30, 5>>, <<120, 25>>}}

InitRule ==
    /\ InitInterview
    /\ env = UnsetEnv
    /\ pm = DefaultManager
    /\ esc = [t \in Tasks |-> IdleTask]
    /\ grading = NoGrading
    /\ rule \in VlookupInputs \cup ReferencesInputs \cup IfInputs \cup BasicInputs
                   \cup PivotInputs \cup CaseInputs \cup GenericInputs

NextRule == GradeByRule

SpecRule == InitRule /\ [][NextRule]_vars


(***************************************************************************)
(* Properties                                                              *)
(***************************************************************************)
\* a /turn request found its interview and the agent processed it
Processed == call.made /\ call.found

\* C1: whenever process_turn is called for an existing interview with 25 or
\* more turns it returns SUMMARY, end reason "Maximum turns reached" and
\* END_INTERVIEW, whatever the current state.
C1_MaxTurnsEndInterview ==
    (Processed /\ call.turn_count >= 25) =>
        /\ response.kind = "ok"
        /\ response.state = "SUMMARY"
        /\ response.end_reason = "Maximum turns reached"
        /\ response.next_action = "END_INTERVIEW"

C1_Witness ==
    /\ Processed
    /\ call.turn_count = 25
    /\ call.current_state = "CORE_Q"
    /\ response.state = "SUMMARY"
    /\ response.end_reason = "Maximum turns reached"

\* C2: in a run from start_interview, no process_turn call made while the
\* interview has fewer than 8 turns returns SUMMARY.
C2_NoSummaryBeforeEightTurns ==
    (Processed /\ call.turn_count < 8) => response.state # "SUMMARY"

C2_Witness ==
    /\ Processed
    /\ call.turn_count = 7
    /\ response.kind = "ok"
    /\ response.state = "CORE_Q"

\* C3: a started interview is in INTRO with the fixed introductory question
\* and an all-zero coverage vector, and the first answer (current state
\* INTRO, one turn recorded) moves it to CALIBRATE.
C3_StartThenCalibrate ==
    /\ (interview.exists /\ ~call.made) =>
          /\ interview.state = "INTRO"
          /\ response.state = "INTRO"
          /\ response.question = "intro"
          /\ response.coverage_vector = ZeroCoverage
    /\ (Processed /\ call.current_state = "INTRO" /\ call.turn_count = 1) =>
          /\ response.state = "CALIBRATE"
          /\ interview.state = "CALIBRATE"

\* C4: for every skill, the stored coverage value of an interview never
\* decreases from one request to the next.
C4_CoverageNeverDecreases ==
    [][interview.exists =>
          \A s \in coverage_skills :
             Get(interview'.coverage_vector, s) >= Get(interview.coverage_vector, s)]_vars

\* C5: for an existing interview, in every state and for every coverage
\* vector, process_turn returns a next question (AWAIT_ANSWER) or the
\* summary (END_INTERVIEW); the turn never fails.
C5_EveryTurnAnswers ==
    Processed =>
        /\ response.kind = "ok"
        /\ \/ response.next_action = "AWAIT_ANSWER" /\ response.question # None
           \/ response.next_action = "END_INTERVIEW" /\ response.state = "SUMMARY"

\* C6: an interview whose candidate keeps submitting answers reaches SUMMARY
\* after at most 25 recorded turns: no more than 25 turns are ever recorded,
\* and every /turn request on an interview that is not in SUMMARY either puts
\* it in SUMMARY or records one more turn.
C6_SummaryWithin25Turns ==
    [][(interview.exists /\ interview.state # "SUMMARY") =>
          /\ interview'.turns <= 25
          /\ \/ interview'.state = "SUMMARY"
             \/ interview'.turns = interview.turns + 1]_vars

C6_Witness ==
    /\ Processed
    /\ interview.state = "SUMMARY"
    /\ interview.turns <= 25
    /\ call.current_state = "REVIEW"

\* the ten foundations and functions skills, as the claims count them
CoreTotal(cv) == SumGet(cv, foundations \cup functions)
CoreAtLevel2(cv) == Cardinality({s \in foundations \cup functions : Get(cv, s) >= 2})
AnalysisAtLevel3(cv) == Cardinality({s \in analysis : Get(cv, s) >= 3})

\* C7: a turn processed in CORE_Q below max_turns goes to DEEP_DIVE if the
\* average core coverage is >= 3.0 and the total exposure >= 15, otherwise
\* to CASE if at least 8 core skills are at level >= 2 and the total exposure
\* >= 12, otherwise to CORE_Q with another core question.
C7_CoreTransition ==
    [][(~call.made /\ call'.made /\ interview.state = "CORE_Q"
           /\ interview.turns < 25) =>
          LET cv == interview.coverage_vector IN
          response'.state =
             IF CoreTotal(cv) >= 3 * 10 /\ CoreTotal(cv) >= 15 THEN "DEEP_DIVE"
             ELSE IF CoreAtLevel2(cv) >= 8 /\ CoreTotal(cv) >= 12 THEN "CASE"
             ELSE "CORE_Q"]_vars

\* C8: a turn processed in DEEP_DIVE below max_turns goes to CASE if at
\* least 2 analysis skills have coverage >= 3, and otherwise stays in
\* DEEP_DIVE with another deep-dive question.  (With fewer than 8 turns the
\* early-termination override processes the turn in CORE_Q, not DEEP_DIVE.)
C8_DeepDiveTransition ==
    [][(~call.made /\ call'.made /\ interview.state = "DEEP_DIVE"
           /\ interview.turns >= 8 /\ interview.turns < 25) =>
          /\ response'.kind = "ok"
          /\ response'.next_action = "AWAIT_ANSWER"
          /\ response'.state =
                IF AnalysisAtLevel3(interview.coverage_vector) >= 2
                THEN "CASE" ELSE "DEEP_DIVE"]_vars

\* C9: in every interview run the turn processed in CASE returns REVIEW and
\* the turn processed in REVIEW returns SUMMARY with END_INTERVIEW, unless
\* the max-turns override fires first.
C9_ClosingPath ==
    (Processed /\ call.turn_count < 25) =>
        /\ call.current_state = "CASE" =>
              response.state = "REVIEW" /\ response.next_action = "AWAIT_ANSWER"
        /\ call.current_state = "REVIEW" =>
              response.state = "SUMMARY" /\ response.next_action = "END_INTERVIEW"

C9_Witness ==
    /\ Processed
    /\ call.current_state = "REVIEW"
    /\ call.turn_count < 25
    /\ response.state = "SUMMARY"
    /\ response.next_action = "END_INTERVIEW"

\* C10: when an escalation call returns, whether the re-grade succeeded or
\* threw, the active provider is the one that was active immediately before
\* that escalation began.
C10_ProviderRestored ==
    [][\A t \in Tasks :
          (esc[t].pc # "returned" /\ esc'[t].pc = "returned") =>
             pm'.provider = esc'[t].original_provider]_vars

C10_Witness ==
    \E t \in Tasks :
       /\ esc[t].pc = "returned"
       /\ esc[t].outcome = "raised"
       /\ esc[t].original_provider = "gemini"
       /\ pm.provider = "gemini"

\* C11: escalation affects only the grading call that requested it: every
\* ordinary LLM grading call of a task, also one made while another task's
\* escalation is in flight, is served by the provider the process was
\* configured with.
C11_OrdinaryCallServedByConfigured ==
    \A t \in Tasks :
       esc[t].served_by # None =>
          esc[t].served_by = LLMProviderManager(env).provider

\* the grade_answer call under study has been made
Graded == grading.done

\* both graders gave a result and the LLM's total_score is a number
BothResults ==
    /\ grading.rule_result.present
    /\ grading.llm_result.present
    /\ IsNum(grading.llm_result.total_score)

\* |rule_score x 100 - llm_score|, in hundredths of a point
ScoreDiff ==
    Abs(Times100(grading.rule_result.score) - grading.llm_result.total_score.n)

\* C12: when only a rule result is available for an answer, grade_answer
\* returns hybrid_score = rule_score x 100, no llm_score, confidence 0.8 if
\* the rule grader passed and 0.6 otherwise, and grading_method rule_only.
C12_RuleOnly ==
    (Graded /\ grading.rule_result.present /\ ~grading.llm_result.present) =>
       /\ grading.result.kind = "ok"
       /\ grading.result.hybrid_score = Num(Times100(grading.rule_result.score))
       /\ grading.result.llm_score = PyNone
       /\ grading.result.confidence =
             Num(IF grading.rule_result.passed THEN 800 ELSE 600)
       /\ grading.result.grading_method = "rule_only"

C12_Witness ==
    /\ Graded
    /\ grading.rule_result.present
    /\ ~grading.llm_result.present
    /\ ~grading.rule_result.passed
    /\ grading.result.hybrid_score = Num(Points(30))
    /\ grading.result.confidence = Num(600)
    /\ grading.result.grading_method = "rule_only"

\* C13: when both results are present and differ by at most 20 points, the
\* combined result has the weighted average as hybrid_score, weight 0.7 on
\* the rule score for a rule-heavy skill and 0.3 otherwise, the union of
\* both graders' tags, and method hybrid.
C13_WeightedAverage ==
    (Graded /\ BothResults /\ ScoreDiff <= Points(20)
            /\ IsNum(grading.llm_result.confidence)) =>
       LET w == IF grading.target_skill \in
                     {"references", "basic_formulas", "vlookup", "if_functions"}
                THEN 7 ELSE 3
       IN /\ grading.hybrid_result.kind = "ok"
          /\ grading.hybrid_result.hybrid_score =
                Num((w * Times100(grading.rule_result.score)
                     + (10 - w) * grading.llm_result.total_score.n) \div 10)
          /\ grading.hybrid_result.error_tags =
                grading.rule_result.error_tags \cup grading.llm_result.error_tags
          /\ grading.hybrid_result.grading_method = "hybrid"

\* rule 80, LLM 85, skill vlookup gives 81.5
C13_Witness ==
    /\ Graded
    /\ grading.target_skill = "vlookup"
    /\ grading.rule_result.present
    /\ grading.rule_result.score = 800
    /\ grading.llm_result.total_score = Num(Points(85))
    /\ grading.hybrid_result.hybrid_score = Num(8150)
    /\ grading.hybrid_result.grading_method = "hybrid"

\* C14: when both results are present and differ by more than 20 points,
\* the combined result has the rule score (x 100) as hybrid_score if the
\* skill is rule-heavy and the rule grader passed, and the LLM score
\* otherwise; confidence 0.6, the tag scoring_disagreement, and method
\* disagreement.
C14_Disagreement ==
    (Graded /\ BothResults /\ ScoreDiff > Points(20)) =>
       /\ grading.hybrid_result.kind = "ok"
       /\ grading.hybrid_result.hybrid_score =
             (IF /\ grading.target_skill \in
                      {"references", "basic_formulas", "vlookup", "if_functions"}
                 /\ grading.rule_result.passed
              THEN Num(Times100(grading.rule_result.score))
              ELSE grading.llm_result.total_score)
       /\ grading.hybrid_result.confidence = Num(600)
       /\ "scoring_disagreement" \in grading.hybrid_result.error_tags
       /\ grading.hybrid_result.grading_method = "disagreement"

\* rule 30 not passed, LLM 90, skill vlookup gives 90
C14_Witness ==
    /\ Graded
    /\ grading.target_skill = "vlookup"
    /\ grading.rule_result.present
    /\ grading.rule_result.score = 300
    /\ ~grading.rule_result.passed
    /\ grading.llm_result.total_score = Num(Points(90))
    /\ grading.hybrid_result.hybrid_score = Num(Points(90))
    /\ "scoring_disagreement" \in grading.hybrid_result.error_tags

\* C15: when neither a rule result nor an LLM result is available, the
\* combined result is the fallback: hybrid_score 50, confidence 0.3, tag
\* grading_error, method fallback.
C15_Fallback ==
    (Graded /\ ~grading.rule_result.present /\ ~grading.llm_result.present) =>
       /\ grading.hybrid_result.kind = "ok"
       /\ grading.hybrid_result.hybrid_score = Num(Points(50))
       /\ grading.hybrid_result.confidence = Num(300)
       /\ grading.hybrid_result.error_tags = {"grading_error"}
       /\ grading.hybrid_result.grading_method = "fallback"

C15_Witness ==
    /\ Graded
    /\ ~grading.rule_result.present
    /\ ~grading.llm_result.present
    /\ grading.target_skill = "sumif"
    /\ grading.hybrid_result.grading_method = "fallback"

\* C16: escalation is attempted for a graded answer if and only if the
\* combined result has confidence below 0.5, or carries the tag
\* scoring_disagreement, or has method fallback.
C16_EscalationTrigger ==
    (Graded /\ grading.hybrid_result.kind = "ok"
            /\ IsNum(grading.hybrid_result.confidence)) =>
       (grading.escalated <=>
          \/ grading.hybrid_result.confidence.n < 500
          \/ "scoring_disagreement" \in grading.hybrid_result.error_tags
          \/ grading.hybrid_result.grading_method = "fallback")

\* an LLM-only result of confidence 0.4 escalates, and (C16_WitnessNot) one
\* of confidence exactly 0.5 does not
C16_Witness ==
    /\ Graded
    /\ grading.hybrid_result.grading_method = "llm_only"
    /\ grading.hybrid_result.confidence = Num(400)
    /\ grading.escalated

C16_WitnessNot ==
    /\ Graded
    /\ grading.hybrid_result.grading_method = "llm_only"
    /\ grading.hybrid_result.confidence = Num(500)
    /\ ~grading.escalated

\* the escalation of the call under study re-graded with the stronger model
Regraded == Graded /\ grading.escalated /\ grading.regraded_by # None

\* an LLM grading call that failed: the client raised, or what it returned
\* is not the required structured object
CallFailed(reply) ==
    reply.kind \in {"exception", "not_json", "no_fields", "strings"}

\* C17: a successful escalation returns the stronger model's score as
\* llm_score and as hybrid_score, confidence min(0.9, escalated confidence
\* + 0.1), and grading_method escalated.
C17_EscalatedResult ==
    (Regraded /\ grading.claude_reply.kind = "object") =>
       /\ grading.result.llm_score = Num(grading.claude_reply.total_score)
       /\ grading.result.hybrid_score = Num(grading.claude_reply.total_score)
       /\ grading.result.confidence =
             Num(Min(900, grading.claude_reply.confidence + 100))
       /\ grading.result.grading_method = "escalated"

\* C18: when the stronger model's grading call fails, the result returned
\* is the earlier LLM result with the tag escalation_failed added and
\* method escalation_failed; without an earlier LLM result its hybrid_score
\* is rule_score x 100 if a rule result exists and 50 otherwise.
C18_EscalationFailed ==
    (Regraded /\ CallFailed(grading.claude_reply)) =>
       /\ grading.result.grading_method = "escalation_failed"
       /\ "escalation_failed" \in grading.result.error_tags
       /\ grading.llm_result.present =>
             /\ grading.result.hybrid_score = grading.llm_result.total_score
             /\ grading.result.confidence = grading.llm_result.confidence
             /\ grading.result.error_tags =
                   grading.llm_result.error_tags \cup {"escalation_failed"}
       /\ ~grading.llm_result.present =>
             grading.result.hybrid_score =
                (IF grading.rule_result.present
                 THEN Num(Times100(grading.rule_result.score))
                 ELSE Num(Points(50)))

\* C19: grade_answer never fails its caller: whatever the skill, the
\* difficulty, the answer and the outcome of each LLM call, it returns a
\* result with a hybrid_score, a confidence, error tags and a method.
C19_NeverFails ==
    Graded =>
       /\ grading.result.kind = "ok"
       /\ IsNum(grading.result.hybrid_score)
       /\ IsNum(grading.result.confidence)
       /\ grading.result.grading_method # None

\* C20: when the LLM call fails or its output is not the required
\* structured object, LLMBasedGrader.grade_answer returns the heuristic
\* result: total_score 60, minus 20 for an answer shorter than 20
\* characters (as the grader measures it, without surrounding blanks),
\* plus 10 for a formula marker, plus 10 for more than 50 words; the one
\* tag llm_grading_failed; confidence 0.3.
C20_HeuristicFallback ==
    (Graded /\ grading.llm_result.present /\ CallFailed(grading.llm_reply)) =>
       /\ grading.llm_result.total_score =
             Num(Points(60)
                 - (IF grading.answer.stripped < 20 THEN Points(20) ELSE 0)
                 + (IF grading.answer.equals THEN Points(10) ELSE 0)
                 + (IF grading.answer.words > 50 THEN Points(10) ELSE 0))
       /\ grading.llm_result.error_tags = {"llm_grading_failed"}
       /\ grading.llm_result.confidence = Num(300)

\* C21: if LLM-backed generation of the calibration question fails (a
\* transport error or malformed structured output), the turn still
\* succeeds: the response has state CALIBRATE, the one fixed fallback
\* question, the fixed target skill basic_formulas and difficulty 1, and the
\* question is recorded as the next turn.
C21_CalibrationFallback ==
    (Processed /\ call.calibrating /\ (call.llm.raises \/ ~call.llm.wellformed)) =>
       /\ response.kind = "ok"
       /\ response.state = "CALIBRATE"
       /\ response.question = "calibration_fallback"
       /\ response.target_skill = "basic_formulas"
       /\ response.difficulty = 1
       /\ response.next_action = "AWAIT_ANSWER"
       /\ interview.state = "CALIBRATE"
       /\ interview.turns = call.turn_count + 1

C21_Witness ==
    /\ Processed
    /\ call.calibrating
    /\ call.llm.raises
    /\ call.current_state = "INTRO"
    /\ response.state = "CALIBRATE"
    /\ response.question = "calibration_fallback"
    /\ response.difficulty = 1

\* the states whose question is a skill question
SkillQuestionStates == {"CALIBRATE", "CORE_Q", "DEEP_DIVE", "CASE"}

\* C22: each processed turn grades the previous answer before the next
\* question is returned: whenever a /turn request answers a skill question
\* and the agent returns, one more turn has its grading fields (rule, LLM
\* and hybrid score, confidence, error tags, feedback) stored.
C22_PreviousAnswerGraded ==
    [][(interview.exists /\ interview.state \in SkillQuestionStates
           /\ response'.kind = "ok") =>
          interview'.graded = interview.graded + 1]_vars

\* C23: the turn history is append-only: once the answer of a turn has been
\* recorded, no later /turn request, also one made after the interview has
\* reached SUMMARY, changes it; a request leaves the recorded answer of the
\* latest turn as it is, or leaves that turn behind by appending a new one.
C23_TurnHistoryAppendOnly ==
    [][(interview.exists /\ interview.answer # None) =>
          \/ interview'.turns > interview.turns
          \/ interview'.answer = interview.answer]_vars

\* C26: every response that issues a generated or selected question
\* (calibration and its fallback, core, deep-dive, case) for target skill s
\* at difficulty d returns a coverage vector already updated for that
\* question: coverage[s] >= d.
C26_CoverageUpdatedForQuestion ==
    (Processed /\ response.kind = "ok" /\ response.state \in SkillQuestionStates) =>
       Get(response.coverage_vector, response.target_skill) >= response.difficulty

\* the position of a state in the order INTRO, CALIBRATE, CORE_Q, DEEP_DIVE,
\* CASE, REVIEW, SUMMARY
StateOrder == <<"INTRO", "CALIBRATE", "CORE_Q", "DEEP_DIVE", "CASE", "REVIEW", "SUMMARY">>
Rank(st) == CHOOSE i \in 1..Len(StateOrder) : StateOrder[i] = st

\* C27: an interview never goes back to an earlier state: along every run
\* from /start the stored state never moves down the order INTRO,
\* CALIBRATE, CORE_Q, DEEP_DIVE, CASE, REVIEW, SUMMARY, and once it is
\* SUMMARY every later process_turn returns SUMMARY.
C27_NeverGoesBack ==
    [][interview.exists =>
          /\ Rank(interview'.state) >= Rank(interview.state)
          /\ interview.state = "SUMMARY" =>
                (response'.kind = "ok" /\ response'.state = "SUMMARY")]_vars

\* a request made after the summary is answered with SUMMARY again
C27_Witness ==
    /\ Processed
    /\ call.current_state = "SUMMARY"
    /\ call.turn_count < 25
    /\ response.state = "SUMMARY"
    /\ interview.state = "SUMMARY"

\* the coverage vector process_turn works on for a row
CoverageOf(row) ==
    IF row.coverage_vector # EmptyDict THEN row.coverage_vector ELSE ZeroCoverage

\* the skills a core question is selected from: the foundations and
\* functions skills on entering CORE_Q from CALIBRATE, those and the data
\* operations skills on continuing in CORE_Q
Candidates(current_state, turn_count) ==
    IF current_state = "CALIBRATE" /\ turn_count >= 8
    THEN foundations \cup functions
    ELSE foundations \cup functions \cup data_ops

C30_WitnessMin ==
    /\ Processed
    /\ call.current_state = "CALIBRATE"
    /\ response.state = "CORE_Q"
    /\ \A s \in foundations \cup functions : Get(response.coverage_vector, s) >= 2
    /\ Get(response.coverage_vector, response.target_skill) = 2

\* C25: when both results are present and agree (difference <= 20), the
\* combined confidence is the average of the rule confidence (0.8, a rule
\* result carrying none) and the LLM confidence, capped at 0.9:
\* min(0.9, (0.8 + llm_confidence) / 2).
C25_AgreementConfidence ==
    (Graded /\ BothResults /\ ScoreDiff <= Points(20)
            /\ IsNum(grading.llm_result.confidence)) =>
       grading.hybrid_result.confidence =
          Num(Min(900, (800 + grading.llm_result.confidence.n) \div 2))

\* the routing conditions of the LLM grader, on the arguments and the rule
\* result of the call under study
Routed ==
    \/ grading.target_skill \in llm_heavy_skills
    \/ grading.difficulty >= 3
    \/ grading.rule_result.present /\ grading.rule_result.score < 300
    \/ grading.answer.words > 50
    \/ /\ grading.rule_result.present
       /\ grading.rule_result.error_tags # {}
       /\ grading.answer.chars > 100

C28_WitnessRouted ==
    /\ Graded
    /\ grading.target_skill = "vlookup"
    /\ grading.difficulty = 1
    /\ grading.rule_result.score = 800
    /\ grading.rule_result.error_tags # {}
    /\ grading.answer.chars = 120
    /\ grading.answer.words = 1
    /\ grading.served_by # None

\* C29: rule grading runs for an answer if and only if the target skill is
\* rule-heavy (references, basic_formulas, vlookup, if_functions) or the
\* answer contains formula syntax; and it runs before any LLM call of the
\* grading, ordinary or escalated, whose prompt holds the rule result.
C29_RuleGradingFirst ==
    Graded =>
       /\ grading.rule_result.present <=>
             \/ grading.target_skill \in
                   {"references", "basic_formulas", "vlookup", "if_functions"}
             \/ grading.answer.equals
             \/ grading.answer.function
       /\ grading.served_by # None =>
             /\ grading.prompt.built
             /\ grading.prompt.has_rule_analysis = grading.rule_result.present
             /\ grading.prompt.rule_analysis = grading.rule_result
       /\ grading.regraded_by # None =>
             /\ grading.claude_prompt.built
             /\ grading.claude_prompt.has_rule_analysis = grading.rule_result.present
             /\ grading.claude_prompt.rule_analysis = grading.rule_result

\* a formula in an answer on a skill that is not rule-heavy: the rule grader
\* runs and its result is in the prompt of the LLM call
C29_Witness ==
    /\ Graded
    /\ grading.target_skill = "pivot_tables"
    /\ ~grading.answer.equals
    /\ grading.answer.function
    /\ grading.rule_result.present
    /\ grading.served_by # None
    /\ grading.prompt.has_rule_analysis
    /\ grading.prompt.rule_analysis.score = 800

\* the candidate wrote a VLOOKUP call with a range as table array, a
\* number as column index and a match flag
WrittenWell ==
    /\ rule.written.table_array = <<"B:C">>
    /\ rule.written.col_index_num = <<"2">>
    /\ rule.written.range_lookup \in {<<"FALSE">>, <<"TRUE">>}

\* the first half of C24: the score lies in [0, 1] and passed is true
\* exactly when it is at least 0.6
C24_ScoreAndPassed ==
    rule.done =>
       /\ rule.result.score \in 0..1000
       /\ rule.result.passed <=> rule.result.score >= 600

\* C24: for every skill policy of RuleBasedGrader and every combination of
\* matched sub-criteria the score lies in [0, 1] and passed is true exactly
\* when score >= 0.6; and on skill vlookup an answer that holds a VLOOKUP
\* call with at least 3 parameters, a range table array, a numeric column
\* index and a match flag scores >= 0.6 and passes.
C24_RuleScore ==
    rule.done =>
       /\ rule.result.score \in 0..1000
       /\ rule.result.passed <=> rule.result.score >= 600
       /\ (rule.target_skill = "vlookup" /\ WrittenWell) =>
             (rule.result.score >= 600 /\ rule.result.passed)

\* C31: after a CORE_Q question is selected for skill s at difficulty d,
\* coverage[s] equals max(previous coverage[s], d) and the coverage of every
\* other skill is unchanged; the steps that issue the CASE and the REVIEW
\* question leave the whole coverage vector unchanged.  The vector is the
\* one the response returns and the /turn handler stores.
C31_CoverageFrame ==
    [][(~call.made /\ call'.made /\ response'.kind = "ok") =>
          LET cv == CoverageOf(interview)
              new == response'.coverage_vector
              s == response'.target_skill
              d == response'.difficulty
          IN /\ response'.state = "CORE_Q" =>
                   /\ Get(new, s) = Max(Get(cv, s), d)
                   /\ \A o \in (DOMAIN new \cup DOMAIN cv) \ {s} :
                         Get(new, o) = Get(cv, o)
                   /\ interview'.coverage_vector = new
             /\ response'.state \in {"CASE", "REVIEW"} =>
                   /\ new = cv
                   /\ interview'.coverage_vector = new]_vars

\* a core question at difficulty 2 on a skill already at level 3: the level
\* stays 3
C31_Witness ==
    /\ Processed
    /\ call.current_state = "CALIBRATE"
    /\ response.state = "CORE_Q"
    /\ response.difficulty = 2
    /\ Get(response.coverage_vector, response.target_skill) = 3
    /\ interview.coverage_vector = response.coverage_vector

\* the case question issued with the coverage vector as it was
C31_WitnessCase ==
    /\ Processed
    /\ call.current_state = "CORE_Q"
    /\ response.state = "CASE"
    /\ Get(response.coverage_vector, "case_analysis") = 0
    /\ interview.coverage_vector = response.coverage_vector

\* C32: whenever escalation is triggered, LLM grading is re-run exactly once
\* against the stronger model (Claude), whichever provider is the active
\* one at that moment, also when Claude is the active provider already.
C32_EscalationRegrades ==
    (Graded /\ grading.escalated) =>
       /\ grading.regraded_by = "claude"
       /\ grading.claude_prompt.built

\* C33: the fixed fallback calibration question is used only when
\* generation fails: when the provider returns a well-formed structured
\* response, the CALIBRATE response carries that response's question and
\* target skill at difficulty 1, and the coverage of that skill is raised
\* to at least 1.
C33_GeneratedCalibration ==
    (Processed /\ call.calibrating /\ ~call.llm.raises /\ call.llm.wellformed) =>
       /\ response.kind = "ok"
       /\ response.state = "CALIBRATE"
       /\ response.question = "llm_question"
       /\ response.target_skill = call.llm.target_skill
       /\ response.difficulty = 1
       /\ Get(response.coverage_vector, call.llm.target_skill) >= 1

\* C34: escalation restores the complete provider selection: for every
\* configured (provider, model) pair, the provider name and the model name
\* that get_provider_info reports after an escalation equal their values
\* before it; so with no escalation in flight they are the configured ones.
C34_SelectionRestored ==
    (\A t \in Tasks : esc[t].pc # "awaiting") =>
       /\ pm.provider = LLMProviderManager(env).provider
       /\ pm.model_name = LLMProviderManager(env).model_name

\* the grading methods _escalate_grading gives its results
EscalationOutcomes == {"escalated_claude", "escalation_failed"}

\* C35: whenever both a rule result and an LLM result are produced for an
\* answer, grade_answer escalates, so the grading_method of a result that
\* grade_answer returns is never hybrid, disagreement or fallback: it is
\* rule_only, llm_only or an escalation outcome.
C35_BothResultsEscalate ==
    Graded =>
       /\ (grading.rule_result.present /\ grading.llm_result.present) =>
             grading.escalated
       /\ grading.result.kind = "ok" =>
             grading.result.grading_method
                \in {"rule_only", "llm_only"} \cup EscalationOutcomes

C37_ProviderAfterAllEscalations ==
    (\A t \in Tasks : esc[t].pc # "awaiting") =>
       pm.provider = LLMProviderManager(env).provider

\* two escalations that overlapped have both finished, under a configured
\* provider that is neither the default nor Claude
C37_Witness ==
    /\ env.PROVIDER = "groq"
    /\ pm.provider = "groq"
    /\ \A t \in Tasks : esc[t].pc = "returned"
    /\ \E t \in Tasks : esc[t].original_provider = "groq"
    /\ \E t \in Tasks : esc[t].original_provider = "claude"

\* C38: an escalation that begins while another interview's escalation is
\* in flight still performs its own re-grade against the stronger model: it
\* is not skipped, and so not reported as escalation_failed, because of the
\* other interview's escalation.
C38_ConcurrentEscalationRegrades ==
    [][\A t \in Tasks :
          (/\ esc[t].pc = "idle"
           /\ esc'[t].pc # "idle"
           /\ \E u \in Tasks \ {t} : esc[u].pc = "awaiting") =>
             /\ esc'[t].pc = "awaiting"
             /\ esc'[t].outcome # "skipped"
             /\ esc'[t].grading_method # "escalation_failed"]_vars

====
